---------------------------- MODULE Spec2Model ----------------------------
(***************************************************************************)
(* A model of the blood-pressure prediction pipeline of src/app.py: the    *)
(* start-up load of the two regression models, the /predict handler with   *)
(* its signal-conditioning and feature-extraction helpers, and the other   *)
(* request handlers that share module-level state.                         *)
(*                                                                         *)
(* Array indices are the 0-based indices of the Python code; the sample    *)
(* with index i of a waveform x is x[i + 1].                               *)
(***************************************************************************)
EXTENDS Integers, Sequences, FiniteSets, TLC

(***************************************************************************)
(* Bounds of the model: the waveforms the filter may produce are the       *)
(* piecewise-linear signals through NKnots knots, Step samples apart, each *)
(* knot at one of the levels of Levels.                                    *)
(***************************************************************************)
NKnots == 7

Step == 20

Levels == {0, 1, 2}

(***************************************************************************)
(* Program constants.                                                      *)
(***************************************************************************)
\* the default fs=100 of predict and of every helper (lines 547, 565, 571, 583, 625)
DefaultFs == 100

\* find_peaks(sig, distance=50) in extract_ppg_features
MorphDistance == 50

\* HR = BD/60
HRDivisor == 60

\* filtfilt's default padlen for the order-3 band-pass built at line 550:
\* 3 * max(len(a), len(b)) = 3 * 7; the input must be longer than that.
FiltPadLen == 21

\* highcut = 8.0 Hz: butter needs highcut / (0.5 * fs) < 1, i.e. fs > 16
MinFsExclusive == 16

(***************************************************************************)
(* Small helpers.                                                          *)
(***************************************************************************)
Abs(a) == IF a < 0 THEN -a ELSE a

Range(x) == {x[i] : i \in 1..Len(x)}

SeqMin(x) == LET vals == Range(x) IN CHOOSE m \in vals : \A v \in vals : m <= v

SeqMax(x) == LET vals == Range(x) IN CHOOSE m \in vals : \A v \in vals : m >= v

RECURSIVE SortedSeq(_)
SortedSeq(S) ==
    IF S = {} THEN <<>>
    ELSE LET m == CHOOSE m \in S : \A k \in S : m <= k
         IN  <<m>> \o SortedSeq(S \ {m})

Negated(x) == [i \in 1..Len(x) |-> -x[i]]

(***************************************************************************)
(* The waveforms: Expand(k) is the piecewise-linear signal through the     *)
(* knots k, in units of 1/Step of a level.                                 *)
(***************************************************************************)
Expand(k) ==
    [n \in 1..((Len(k) - 1) * Step + 1) |->
        LET i == n - 1
            a == i \div Step
            j == i % Step
        IN  IF j = 0 THEN k[a + 1] * Step
            ELSE k[a + 1] * (Step - j) + k[a + 2] * j]

Waveforms == {Expand(k) : k \in [1..NKnots -> Levels]}

(***************************************************************************)
(* scipy.signal.find_peaks(x, distance=d), as called at lines 574, 587 and *)
(* 588: the local maxima (a flat top counts once, at its middle; the first *)
(* and last samples never count), thinned so that kept peaks are at least  *)
(* d samples apart, higher peaks winning and, among equals, later ones.    *)
(***************************************************************************)
RECURSIVE RunEnd(_, _)
RunEnd(x, n) == IF n < Len(x) /\ x[n + 1] = x[n] THEN RunEnd(x, n + 1) ELSE n

LocalMaxima(x) ==
    { ((n - 1) + (RunEnd(x, n) - 1)) \div 2 :
        n \in { m \in 2..(Len(x) - 1) :
                  /\ x[m - 1] < x[m]
                  /\ RunEnd(x, m) < Len(x)
                  /\ x[RunEnd(x, m) + 1] < x[m] } }

RECURSIVE SelectByPeakDistance(_, _, _, _, _)
SelectByPeakDistance(todo, removed, all, x, d) ==
    IF todo = {} THEN all \ removed
    ELSE LET j == CHOOSE j \in todo :
                    \A k \in todo : \/ x[j + 1] > x[k + 1]
                                    \/ (x[j + 1] = x[k + 1] /\ j >= k)
         IN  IF j \in removed
             THEN SelectByPeakDistance(todo \ {j}, removed, all, x, d)
             ELSE SelectByPeakDistance(todo \ {j},
                      removed \cup {k \in all : k # j /\ Abs(k - j) < d},
                      all, x, d)

find_peaks(x, d) ==
    LET all == LocalMaxima(x)
    IN  SortedSeq(SelectByPeakDistance(all, {}, all, x, d))

(***************************************************************************)
(* A feature slot: its column name and its value.  kind is "nan" (the      *)
(* missing sentinel), "exact" (the rational num/den) or "real" (a finite   *)
(* floating-point statistic whose value the model does not compute).       *)
(***************************************************************************)
NaN(name) == [name |-> name, kind |-> "nan", num |-> 0, den |-> 1]

Real(name) == [name |-> name, kind |-> "real", num |-> 0, den |-> 1]

Exact(name, n, d) == [name |-> name, kind |-> "exact", num |-> n, den |-> d]

(***************************************************************************)
(* MinMaxScaler().fit_transform(arr.T): (x - min) / (max - min), and all   *)
(* zeros for a constant column.  The scaled row is kept as its integer     *)
(* numerators over the common denominator den.                             *)
(***************************************************************************)
MinMaxScale(x) ==
    LET lo == SeqMin(x)
        hi == SeqMax(x)
    IN  [num |-> [i \in 1..Len(x) |-> x[i] - lo],
         den |-> IF hi = lo THEN 1 ELSE hi - lo]

\* skew and kurtosis of a constant row are 0/0: NaN in current scipy, a
\* finite value in older releases; constNaN says which the build gives.
extract_time_domain_features(sig, constNaN) ==
    LET const == SeqMax(sig.num) = SeqMin(sig.num)
        moment(name) == IF const /\ constNaN THEN NaN(name) ELSE Real(name)
    IN  << Real("mean"), Real("std"), Real("max"), Real("min"), Real("range"),
           moment("skew"), moment("kurtosis"), Real("entropy") >>

extract_frequency_domain_features(sig, fs) ==
    << Real("domf"), Real("power") >>

\* (mutant) one peak taken to be enough
extract_ppg_specific_features_OnePeak(sig, fs) ==
    LET pks == find_peaks(sig.num, fs \div 2)
    IN  IF Len(pks) > 0
        THEN << Exact("interval", pks[Len(pks)] - pks[1], (Len(pks) - 1) * fs),
                Real("amp") >>
        ELSE << NaN("interval"), NaN("amp") >>

extract_ppg_specific_features(sig, fs) ==
    LET pks == find_peaks(sig.num, fs \div 2)
    IN  IF Len(pks) > 1
        THEN << Exact("interval", pks[Len(pks)] - pks[1], (Len(pks) - 1) * fs),
                Real("amp") >>
        ELSE << NaN("interval"), NaN("amp") >>

MorphologyNames ==
    << "ETR", "BD", "HR", "SVC", "DVC", "SMVC", "DMVC", "PWIR", "PWAT" >>

\* (mutant) T4 measured from the valley to the peak, as T5 is
extract_ppg_features_T4(ppg, fs) ==
    LET lo      == SeqMin(ppg.num)
        sig     == [i \in 1..Len(ppg.num) |-> ppg.num[i] - lo]
        peaks   == find_peaks(sig, MorphDistance)
        valleys == find_peaks(Negated(sig), MorphDistance)
    IN  IF Len(peaks) < 2 \/ Len(valleys) < 2
        THEN [i \in 1..9 |-> NaN(MorphologyNames[i])]
        ELSE
          LET Pv == sig[valleys[1] + 1]
              T1 == peaks[1] - valleys[1]
              T2 == valleys[2] - peaks[1]
              T3 == peaks[2] - valleys[2]
              T4 == peaks[1] - valleys[1]
              T5 == peaks[1] - valleys[1]
              BD == T1 + T2 + T3
          IN  << IF BD # 0 THEN Exact("ETR", T4 + T5, BD) ELSE NaN("ETR"),
                 Exact("BD", BD, 1),
                 Exact("HR", BD, HRDivisor),
                 IF T1 # 0 THEN Real("SVC") ELSE NaN("SVC"),
                 IF T2 # 0 THEN Real("DVC") ELSE NaN("DVC"),
                 Real("SMVC"),
                 Real("DMVC"),
                 IF Pv # 0 THEN Real("PWIR") ELSE NaN("PWIR"),
                 Exact("PWAT", T1, fs) >>

\* line 586 rescales the row by (max - min + 1e-8): the order of the samples
\* and the samples equal to the minimum (exactly 0) are what it preserves.
extract_ppg_features(ppg, fs) ==
    LET lo      == SeqMin(ppg.num)
        sig     == [i \in 1..Len(ppg.num) |-> ppg.num[i] - lo]
        peaks   == find_peaks(sig, MorphDistance)
        valleys == find_peaks(Negated(sig), MorphDistance)
    IN  IF Len(peaks) < 2 \/ Len(valleys) < 2
        THEN [i \in 1..9 |-> NaN(MorphologyNames[i])]
        ELSE
          LET Pp == sig[peaks[1] + 1]
              Pv == sig[valleys[1] + 1]
              T1 == peaks[1] - valleys[1]
              T2 == IF Len(valleys) > 1 THEN valleys[2] - peaks[1] ELSE T1
              T3 == IF Len(peaks) > 1 /\ Len(valleys) > 1
                    THEN peaks[2] - valleys[2] ELSE T1
              T4 == valleys[1] - peaks[1]
              T5 == peaks[1] - valleys[1]
              BD == T1 + T2 + T3
          IN  << IF BD # 0 THEN Exact("ETR", T4 + T5, BD) ELSE NaN("ETR"),
                 Exact("BD", BD, 1),
                 Exact("HR", BD, HRDivisor),
                 IF T1 # 0 THEN Real("SVC") ELSE NaN("SVC"),
                 IF T2 # 0 THEN Real("DVC") ELSE NaN("DVC"),
                 Real("SMVC"),
                 Real("DMVC"),
                 IF Pv # 0 THEN Real("PWIR") ELSE NaN("PWIR"),
                 Exact("PWAT", T1, fs) >>

\* SimpleImputer(strategy="mean").fit_transform on one row: a column with an
\* observed value keeps it (the mean of one value); a column with none has
\* no mean and is dropped from the output.
SimpleImputerMean(feats) == SelectSeq(feats, LAMBDA s : s.kind # "nan")

\* the 21 columns, in the order of the np.column_stack and np.hstack calls
FeatureNames ==
    << "mean", "std", "max", "min", "range", "skew", "kurtosis", "entropy",
       "domf", "power", "interval", "amp" >> \o MorphologyNames

\* np.hstack((tf, ff, pf, wf)) before imputation
FeatureRow(ppg_signal, constNaN) ==
    LET scaled == MinMaxScale(ppg_signal)
        tf == extract_time_domain_features(scaled, constNaN)
        ff == extract_frequency_domain_features(scaled, DefaultFs)
        pf == extract_ppg_specific_features(scaled, DefaultFs)
        wf == extract_ppg_features(scaled, DefaultFs)
    IN  tf \o ff \o pf \o wf

extract_features(ppg_signal, constNaN) ==
    SimpleImputerMean(FeatureRow(ppg_signal, constNaN))


(***************************************************************************)
(* State.  The module-level names of src/app.py keep their names; the      *)
(* locals of one invocation of predict() live in a frame, one frame per    *)
(* request being served.                                                   *)
(***************************************************************************)
VARIABLES
    model_sbp, model_dbp,       \* the two loaded regressors, or "None"
    session_data,               \* the dict both pages' handlers share by name
    graph_data, last_valid_hr,  \* heart-rate page state
    paused, thresholds,         \* SpO2 page state
    session_start,              \* "None" until get_duration() first runs
    crashed,                    \* the handler whose last call raised KeyError
    pc,                         \* per request thread: the next step of predict
    req,                        \* per request thread: the JSON body received
    data, fs, filt, X, sbp, dbp,\* per frame: the locals of predict
    raised,                     \* per request thread: where an exception rose
    resp                        \* per request thread: the response sent

globals == << model_sbp, model_dbp >>

pages == << session_data, graph_data, last_valid_hr, paused, thresholds,
            session_start, crashed >>

locals == << data, fs, filt, X, sbp, dbp >>

vars == << model_sbp, model_dbp, session_data, graph_data, last_valid_hr,
           paused, thresholds, session_start, crashed,
           pc, req, data, fs, filt, X, sbp, dbp, raised, resp >>

Threads == {1, 2}

(***************************************************************************)
(* Start-up, lines 537-544: both loads sit in one try block, so a failure  *)
(* of either leaves both names None.                                       *)
(***************************************************************************)
\* (mutant) each load in a try block of its own
LoadModels_Separately(sbpLoads, dbpLoads) ==
    [sbp |-> IF sbpLoads THEN "sys.joblib" ELSE "None",
     dbp |-> IF dbpLoads THEN "dys.joblib" ELSE "None"]

LoadModels(sbpLoads, dbpLoads) ==
    IF sbpLoads /\ dbpLoads
    THEN [sbp |-> "sys.joblib", dbp |-> "dys.joblib"]
    ELSE [sbp |-> "None", dbp |-> "None"]

(***************************************************************************)
(* The locals of predict() are local variables of the function: each       *)
(* invocation has its own.  Frame(t) is the frame thread t's invocation    *)
(* reads and writes.                                                       *)
(***************************************************************************)
\* (mutant) the locals kept in module-level names, shared by all threads
Frame_Shared(t) == 1

Frame(t) == t

\* An array or list of samples: numeric is FALSE when some item is not a
\* number, finite is FALSE when some item is NaN or an infinity (which
\* Python's JSON parser accepts).
NoSamples == [numeric |-> TRUE, finite |-> TRUE, samples |-> <<>>]

NoResp ==
    [status |-> 0, by |-> "none", keys |-> {}, error |-> "",
     sbp |-> 0, dbp |-> 0, filtered |-> NoSamples]

(***************************************************************************)
(* Responses.                                                              *)
(***************************************************************************)
\* line 628
CheckFailedResponse ==
    [status |-> 400, by |-> "predict", keys |-> {"error"},
     error |-> "Invalid input or models not loaded",
     sbp |-> 0, dbp |-> 0, filtered |-> NoSamples]

\* (mutant) the handler answers an exception as line 628 answers the check
ExceptionResponse_AsCheck(msg) ==
    [status |-> 400, by |-> "predict", keys |-> {"error"},
     error |-> "Invalid input or models not loaded",
     sbp |-> 0, dbp |-> 0, filtered |-> NoSamples]

\* (mutant) the handler answers with the values it has so far
ExceptionResponse_Partial(msg) ==
    [status |-> 500, by |-> "predict", keys |-> {"error", "sbp"}, error |-> msg,
     sbp |-> 0, dbp |-> 0, filtered |-> NoSamples]

\* line 638
ExceptionResponse(msg) ==
    [status |-> 500, by |-> "predict", keys |-> {"error"}, error |-> msg,
     sbp |-> 0, dbp |-> 0, filtered |-> NoSamples]

\* round(v, 1) of a value given in hundredths, in tenths (ties to even)
Round1(v) ==
    LET q == v \div 10
        r == v % 10
    IN  IF r < 5 THEN q
        ELSE IF r > 5 THEN q + 1
        ELSE IF q % 2 = 0 THEN q ELSE q + 1

\* line 636
ResultResponse(s, d, f) ==
    [status |-> 200, by |-> "predict", keys |-> {"sbp", "dbp", "filtered"},
     error |-> "", sbp |-> Round1(s), dbp |-> Round1(d), filtered |-> f]


(***************************************************************************)
(* The request bodies a client may send: a JSON object with optional "ppg" *)
(* and "fs" (section 6 of the specification).                              *)
(***************************************************************************)
Pad(k) == [i \in 1..NKnots |-> IF i <= Len(k) THEN k[i] ELSE k[Len(k)]]

\* a recording long enough for the filter, as sent by the page
RawRecording == Expand(Pad(<<1, 2, 0, 2, 1, 2, 0>>))

PpgChoices ==
    { [has |-> FALSE, numeric |-> TRUE,  finite |-> TRUE,  samples |-> <<>>],
      [has |-> TRUE,  numeric |-> TRUE,  finite |-> TRUE,  samples |-> <<>>],
      [has |-> TRUE,  numeric |-> FALSE, finite |-> TRUE,  samples |-> <<0, 0, 0>>],
      [has |-> TRUE,  numeric |-> TRUE,  finite |-> TRUE,  samples |-> <<1, 2, 3>>],
      [has |-> TRUE,  numeric |-> TRUE,  finite |-> FALSE, samples |-> RawRecording],
      [has |-> TRUE,  numeric |-> TRUE,  finite |-> TRUE,  samples |-> RawRecording] }

FsChoices ==
    { [has |-> FALSE, val |-> 0] } \cup
    { [has |-> TRUE, val |-> v] : v \in {-100, 0, 16, 50} }

NoRequest ==
    [ppg |-> [has |-> FALSE, numeric |-> TRUE, finite |-> TRUE, samples |-> <<>>],
     fs |-> [has |-> FALSE, val |-> 0]]

Requests == { [ppg |-> p, fs |-> f] : p \in PpgChoices, f \in FsChoices }

\* the requests of the concurrent specification
ConcRequests ==
    { q \in Requests : /\ q.ppg.has
                       /\ Len(q.ppg.samples) # 3 \/ ~q.ppg.numeric
                       /\ q.ppg.finite
                       /\ q.fs.has /\ q.fs.val \in {0, 50} }

\* requests whose filtering succeeds, for the study of the extractors
RecordingRequests ==
    { q \in Requests : /\ q.ppg.samples = RawRecording
                       /\ q.ppg.finite
                       /\ q.fs.has /\ q.fs.val > MinFsExclusive }

(***************************************************************************)
(* The waveforms the application-level specifications let the filter       *)
(* return: a steady pulse train, a train whose first valley is also its    *)
(* lowest point, a strict ramp, a flat line, and a single bump.            *)
(***************************************************************************)
SampleWaveforms ==
    { Expand(Pad(<<2, 1, 2, 1, 0, 2, 0>>)),
      Expand(Pad(<<2, 0, 2, 1, 0, 2, 0>>)),
      Expand([i \in 1..NKnots |-> i]),
      Expand([i \in 1..NKnots |-> 1]),
      Expand(Pad(<<0, 2, 0>>)) }

(***************************************************************************)
(* What the calls the model does not compute may do.                       *)
(***************************************************************************)
\* model.predict(X)[0] at lines 634 and 635: the regressor is opaque; the
\* call returns a number (here in hundredths) or raises.
ModelValues == {12025, 8075}

ModelPredict(model, x) ==
    { [ok |-> TRUE, val |-> v] : v \in ModelValues } \cup
    { [ok |-> FALSE, val |-> 0] }

\* butter_bandpass_filter(data, fs=fs), lines 547-551: what butter and
\* filtfilt reject; "" when they accept.
FilterError(samples, f) ==
    IF f = 0 THEN "float division by zero"
    ELSE IF f < 0 \/ f <= MinFsExclusive
    THEN "Digital filter critical frequencies must be 0 < Wn < 1"
    ELSE IF Len(samples) <= FiltPadLen
    THEN "The length of the input vector x must be greater than padlen"
    ELSE ""

\* filtfilt returns an array of the length of its input; a NaN or an
\* infinity among the samples spreads through the recursion to the output.
butter_bandpass_filter(d, f, outputs) ==
    { [numeric |-> TRUE, finite |-> d.finite, samples |-> w] :
        w \in { v \in outputs : Len(v) = Len(d.samples) } }


(***************************************************************************)
(* Initial state: the module has been imported.  The second assignment of  *)
(* session_data (line 446) is the one in force, and both model loads have  *)
(* been tried.                                                             *)
(***************************************************************************)
Init ==
    /\ \E sbpLoads \in BOOLEAN, dbpLoads \in BOOLEAN :
          /\ model_sbp = LoadModels(sbpLoads, dbpLoads).sbp
          /\ model_dbp = LoadModels(sbpLoads, dbpLoads).dbp
    /\ session_data = [spo2 |-> <<>>, pulse |-> <<>>]
    /\ graph_data = <<>>
    /\ last_valid_hr = 0
    /\ paused = FALSE
    /\ thresholds = "default"
    /\ session_start = "None"
    /\ crashed = "none"
    /\ pc = [t \in Threads |-> "idle"]
    /\ req = [t \in Threads |-> NoRequest]
    /\ data = [t \in Threads |-> NoSamples]
    /\ fs = [t \in Threads |-> 0]
    /\ filt = [t \in Threads |-> NoSamples]
    /\ X = [t \in Threads |-> <<>>]
    /\ sbp = [t \in Threads |-> 0]
    /\ dbp = [t \in Threads |-> 0]
    /\ raised = [t \in Threads |-> "none"]
    /\ resp = [t \in Threads |-> NoResp]

(***************************************************************************)
(* predict(), lines 622-638, one action per statement.                     *)
(***************************************************************************)
\* a POST /predict arrives and a thread starts a fresh invocation
Receive(t, inputs) ==
    /\ pc[t] \in {"idle", "done"}
    /\ \E q \in inputs : req' = [req EXCEPT ![t] = q]
    /\ pc' = [pc EXCEPT ![t] = "parse"]
    /\ data' = [data EXCEPT ![Frame(t)] = NoSamples]
    /\ fs' = [fs EXCEPT ![Frame(t)] = 0]
    /\ filt' = [filt EXCEPT ![Frame(t)] = NoSamples]
    /\ X' = [X EXCEPT ![Frame(t)] = <<>>]
    /\ sbp' = [sbp EXCEPT ![Frame(t)] = 0]
    /\ dbp' = [dbp EXCEPT ![Frame(t)] = 0]
    /\ raised' = [raised EXCEPT ![t] = "none"]
    /\ resp' = [resp EXCEPT ![t] = NoResp]
    /\ UNCHANGED << globals, pages >>

\* the end of an invocation: the response goes out
Return(t, stage, r) ==
    /\ raised' = [raised EXCEPT ![t] = stage]
    /\ resp' = [resp EXCEPT ![t] = r]
    /\ pc' = [pc EXCEPT ![t] = "done"]

\* lines 624-625
Parse(t) ==
    /\ pc[t] = "parse"
    /\ data' = [data EXCEPT ![Frame(t)] =
                  IF req[t].ppg.has
                  THEN [numeric |-> req[t].ppg.numeric,
                        finite  |-> req[t].ppg.finite,
                        samples |-> req[t].ppg.samples]
                  ELSE NoSamples]
    /\ fs' = [fs EXCEPT ![Frame(t)] =
                  IF req[t].fs.has THEN req[t].fs.val ELSE DefaultFs]
    /\ pc' = [pc EXCEPT ![t] = "check"]
    /\ UNCHANGED << globals, pages, req, filt, X, sbp, dbp, raised, resp >>

\* (mutant) the check without its tests of the models
CheckFails_InputOnly(d, ms, md) == d.samples = <<>>

\* line 627
CheckFails(d, ms, md) == d.samples = <<>> \/ ms = "None" \/ md = "None"

\* lines 627-628
Check(t) ==
    /\ pc[t] = "check"
    /\ \/ /\ CheckFails(data[Frame(t)], model_sbp, model_dbp)
          /\ Return(t, "none", CheckFailedResponse)
       \/ /\ ~CheckFails(data[Frame(t)], model_sbp, model_dbp)
          /\ pc' = [pc EXCEPT ![t] = "to_array"]
          /\ UNCHANGED << raised, resp >>
    /\ UNCHANGED << globals, pages, req, locals >>

\* line 631: np.array(data, dtype=float)
ToArray(t) ==
    /\ pc[t] = "to_array"
    /\ \/ /\ ~data[Frame(t)].numeric
          /\ Return(t, "to_array",
                    ExceptionResponse("could not convert string to float"))
       \/ /\ data[Frame(t)].numeric
          /\ pc' = [pc EXCEPT ![t] = "filter"]
          /\ UNCHANGED << raised, resp >>
    /\ UNCHANGED << globals, pages, req, locals >>

\* line 632
Filter(t, outputs) ==
    /\ pc[t] = "filter"
    /\ LET err == FilterError(data[Frame(t)].samples, fs[Frame(t)])
       IN  \/ /\ err # ""
              /\ Return(t, "filter", ExceptionResponse(err))
              /\ UNCHANGED filt
           \/ /\ err = ""
              /\ \E w \in butter_bandpass_filter(data[Frame(t)],
                                                 fs[Frame(t)], outputs) :
                    filt' = [filt EXCEPT ![Frame(t)] = w]
              /\ pc' = [pc EXCEPT ![t] = "extract"]
              /\ UNCHANGED << raised, resp >>
    /\ UNCHANGED << globals, pages, req, data, fs, X, sbp, dbp >>

\* line 633.  On samples that are not finite the scaler either rejects
\* the row (an infinity) or every statistic is NaN and the imputer drops
\* every column (NaN only).
Extract(t) ==
    /\ pc[t] = "extract"
    /\ \/ /\ ~filt[Frame(t)].finite
          /\ Return(t, "extract", ExceptionResponse("Input contains infinity"))
          /\ UNCHANGED X
       \/ /\ ~filt[Frame(t)].finite
          /\ X' = [X EXCEPT ![Frame(t)] = <<>>]
          /\ pc' = [pc EXCEPT ![t] = "sbp"]
          /\ UNCHANGED << raised, resp >>
       \/ /\ filt[Frame(t)].finite
          /\ \E constNaN \in BOOLEAN :
                X' = [X EXCEPT ![Frame(t)] =
                        extract_features(filt[Frame(t)].samples, constNaN)]
          /\ pc' = [pc EXCEPT ![t] = "sbp"]
          /\ UNCHANGED << raised, resp >>
    /\ UNCHANGED << globals, pages, req, data, fs, filt, sbp, dbp >>

\* line 634
PredictSbp(t) ==
    /\ pc[t] = "sbp"
    /\ \E out \in ModelPredict(model_sbp, X[Frame(t)]) :
          \/ /\ ~out.ok
             /\ Return(t, "sbp", ExceptionResponse("model_sbp.predict raised"))
             /\ UNCHANGED sbp
          \/ /\ out.ok
             /\ sbp' = [sbp EXCEPT ![Frame(t)] = out.val]
             /\ pc' = [pc EXCEPT ![t] = "dbp"]
             /\ UNCHANGED << raised, resp >>
    /\ UNCHANGED << globals, pages, req, data, fs, filt, X, dbp >>

\* line 635
PredictDbp(t) ==
    /\ pc[t] = "dbp"
    /\ \E out \in ModelPredict(model_dbp, X[Frame(t)]) :
          \/ /\ ~out.ok
             /\ Return(t, "dbp", ExceptionResponse("model_dbp.predict raised"))
             /\ UNCHANGED dbp
          \/ /\ out.ok
             /\ dbp' = [dbp EXCEPT ![Frame(t)] = out.val]
             /\ pc' = [pc EXCEPT ![t] = "respond"]
             /\ UNCHANGED << raised, resp >>
    /\ UNCHANGED << globals, pages, req, data, fs, filt, X, sbp >>

\* line 636
Respond(t) ==
    /\ pc[t] = "respond"
    /\ Return(t, "none",
              ResultResponse(sbp[Frame(t)], dbp[Frame(t)], filt[Frame(t)]))
    /\ UNCHANGED << globals, pages, req, locals >>

PredictStep(t, outputs) ==
    \/ Parse(t)
    \/ Check(t)
    \/ ToArray(t)
    \/ Filter(t, outputs)
    \/ Extract(t)
    \/ PredictSbp(t)
    \/ PredictDbp(t)
    \/ Respond(t)


(***************************************************************************)
(* The handlers of the heart-rate and SpO2 pages, lines 374-532.  Both     *)
(* pages keep their statistics in the one module-level name session_data.  *)
(* Each handler is one action; crashed names the handler when its call     *)
(* ended in an uncaught KeyError.  Clock readings are not modelled.        *)
(***************************************************************************)
\* bounds on the readings recorded in one session
MaxCount == 1

MaxSamples == 1

\* float('inf') and float('-inf'), lines 377-378 and 438
PosInf == 1000000

NegInf == -1000000

\* deque(maxlen=60), line 382
GraphMaxLen == 60

\* line 390: a simulated reading, or -1 for "no finger"
HrReadings == {-1, 55, 120}

\* lines 461-462
Spo2Readings == {85, 99}

PulseReadings == {140}

Min2(a, b) == IF a <= b THEN a ELSE b

Max2(a, b) == IF a >= b THEN a ELSE b

HasKey(d, k) == k \in DOMAIN d

DequeAppend(q, v) ==
    IF Len(q) >= GraphMaxLen THEN Tail(q) \o <<v>> ELSE q \o <<v>>

\* lines 385-431
update ==
    \E hr \in HrReadings :
       \/ /\ hr = -1
          /\ crashed' = "none"
          /\ UNCHANGED << session_data, graph_data, last_valid_hr >>
       \/ /\ hr # -1
          /\ ~HasKey(session_data, "min")
          /\ last_valid_hr' = hr
          /\ crashed' = "update"
          /\ UNCHANGED << session_data, graph_data >>
       \/ /\ hr # -1
          /\ HasKey(session_data, "min")
          /\ session_data.count < MaxCount
          /\ last_valid_hr' = hr
          /\ session_data' =
                [min   |-> Min2(session_data.min, hr),
                 max   |-> Max2(session_data.max, hr),
                 total |-> session_data.total + hr,
                 count |-> session_data.count + 1]
          /\ graph_data' = DequeAppend(graph_data, hr)
          /\ crashed' = "none"

Update ==
    /\ update
    /\ UNCHANGED << globals, paused, thresholds, session_start,
                    pc, req, locals, raised, resp >>

\* lines 434-441
clear ==
    /\ session_data' = [min |-> PosInf, max |-> NegInf, total |-> 0, count |-> 0]
    /\ graph_data' = <<>>
    /\ last_valid_hr' = 0
    /\ crashed' = "none"
    /\ UNCHANGED << globals, paused, thresholds, session_start,
                    pc, req, locals, raised, resp >>

\* lines 453-474, with get_duration (527-532) as called from it
get_spo2_data ==
    /\ \/ /\ paused
          /\ session_start' = "set"
          /\ crashed' = "none"
          /\ UNCHANGED session_data
       \/ /\ ~paused
          /\ ~HasKey(session_data, "spo2")
          /\ crashed' = "spo2-data"
          /\ UNCHANGED << session_data, session_start >>
       \/ /\ ~paused
          /\ HasKey(session_data, "spo2")
          /\ Len(session_data.spo2) < MaxSamples
          /\ \E spo2_val \in Spo2Readings, pulse_val \in PulseReadings :
                session_data' =
                   [spo2  |-> Append(session_data.spo2, spo2_val),
                    pulse |-> Append(session_data.pulse, pulse_val)]
          /\ session_start' = "set"
          /\ crashed' = "none"
    /\ UNCHANGED << globals, graph_data, last_valid_hr, paused, thresholds,
                    pc, req, locals, raised, resp >>

\* lines 476-480
toggle_pause ==
    /\ paused' = ~paused
    /\ UNCHANGED << globals, session_data, graph_data, last_valid_hr,
                    thresholds, session_start, crashed,
                    pc, req, locals, raised, resp >>

\* lines 482-487: thresholds becomes whatever body was posted
update_settings ==
    /\ \E body \in {"default", "custom"} : thresholds' = body
    /\ UNCHANGED << globals, session_data, graph_data, last_valid_hr,
                    paused, session_start, crashed,
                    pc, req, locals, raised, resp >>

(***************************************************************************)
(* Specifications.                                                         *)
(*   Spec      the application: one predict request at a time, among the   *)
(*             requests to the other pages;                                *)
(*   SpecConc  two predict requests served concurrently, their statements  *)
(*             interleaved in every order;                                 *)
(*   SpecFeat  predict up to its feature extraction, the filter returning  *)
(*             every waveform of Waveforms: the extractors on all inputs.  *)
(***************************************************************************)
Next ==
    \/ Receive(1, Requests)
    \/ PredictStep(1, SampleWaveforms)
    \/ Update
    \/ clear
    \/ get_spo2_data
    \/ toggle_pause
    \/ update_settings

Spec == Init /\ [][Next]_vars

NextConc ==
    \E t \in Threads :
       \/ Receive(t, ConcRequests)
       \/ PredictStep(t, SampleWaveforms)

SpecConc == Init /\ [][NextConc]_vars

NextFeat ==
    \/ Receive(1, RecordingRequests)
    \/ Parse(1)
    \/ Check(1)
    \/ ToArray(1)
    \/ Filter(1, Waveforms)
    \/ Extract(1)

SpecFeat == Init /\ [][NextFeat]_vars


(***************************************************************************)
(* Properties.                                                             *)
(***************************************************************************)
ModelsUnavailable == model_sbp = "None" \/ model_dbp = "None"

\* the request carries a non-empty list of numbers
ValidWaveform(q) == q.ppg.has /\ q.ppg.numeric /\ q.ppg.samples # <<>>

\* the statements of predict() after the check of line 627
PastCheck == {"to_array", "filter", "extract", "sbp", "dbp", "respond"}

IsResult(r) == r.status = 200 /\ r.keys = {"sbp", "dbp", "filtered"}

IsFailure(r) ==
    /\ r.status \in {400, 500}
    /\ r.keys = {"error"}
    /\ r.error # ""

(***************************************************************************)
(* C1.  Fail-fast ordering: while a model is unavailable, a predict        *)
(* request with a valid non-empty waveform never gets to the array         *)
(* conversion, the filter, the feature extraction or a model invocation,   *)
(* raises nothing, and ends with the response of the failed check.         *)
(***************************************************************************)
C1_FailFast ==
    \A t \in Threads :
        (ModelsUnavailable /\ ValidWaveform(req[t]) /\ pc[t] # "idle") =>
            /\ pc[t] \notin PastCheck
            /\ raised[t] = "none"
            /\ filt[t] = NoSamples /\ X[t] = <<>>
            /\ pc[t] = "done" => resp[t] = CheckFailedResponse

C1_Witness ==
    /\ ModelsUnavailable
    /\ ValidWaveform(req[1])
    /\ Len(req[1].ppg.samples) > FiltPadLen
    /\ pc[1] = "done"
    /\ resp[1] = CheckFailedResponse

(***************************************************************************)
(* C2.  The two models are available together or not at all, no request    *)
(* ever reassigns them, and while they are unavailable every predict       *)
(* request, after any requests to the other pages, ends with the response  *)
(* of the failed check: never with sbp or dbp.                             *)
(***************************************************************************)
C2_LoadFailureIsPermanent ==
    /\ [](/\ (model_sbp = "None") <=> (model_dbp = "None")
          /\ ModelsUnavailable =>
                \A t \in Threads :
                    /\ pc[t] \notin PastCheck
                    /\ pc[t] = "done" => resp[t] = CheckFailedResponse
                    /\ {"sbp", "dbp"} \cap resp[t].keys = {})
    /\ [][model_sbp' = model_sbp /\ model_dbp' = model_dbp]_vars

C2_Witness ==
    /\ model_sbp = "None" /\ model_dbp = "None"
    /\ HasKey(session_data, "min") /\ paused /\ thresholds = "custom"
    /\ pc[1] = "done"
    /\ ValidWaveform(req[1])
    /\ resp[1] = CheckFailedResponse


\* the data and fs that lines 624-625 read from a body
DataOf(q) ==
    IF q.ppg.has
    THEN [numeric |-> q.ppg.numeric, finite |-> q.ppg.finite,
          samples |-> q.ppg.samples]
    ELSE NoSamples

FsOf(q) == IF q.fs.has THEN q.fs.val ELSE DefaultFs

\* the column names of a feature vector
Names(x) == [i \in 1..Len(x) |-> x[i].name]

\* predict() holds the feature vector it hands to the models
HasFeatures(t) == pc[t] \in {"sbp", "dbp", "respond"}

(***************************************************************************)
(* C3.  The feature vector handed to the models has exactly 21 slots, in   *)
(* the order 8 time-domain, 2 frequency-domain, 2 pulse-interval,          *)
(* 9 morphology, for every filtered waveform of finite samples, missing    *)
(* pulse-interval or morphology values included.                           *)
(***************************************************************************)
C3_FeatureVectorHas21Slots ==
    \A t \in Threads :
        (HasFeatures(t) /\ filt[t].finite) =>
            /\ Len(X[t]) = 21
            /\ Names(X[t]) = FeatureNames

(***************************************************************************)
(* C4.  A predict request with an empty or missing waveform, non-numeric   *)
(* samples or a non-positive sample rate is answered with the client-input *)
(* failure at once: nothing is raised on its way, and neither the filter,  *)
(* nor the feature extraction, nor a model is tried.                       *)
(***************************************************************************)
InvalidInput(q) ==
    \/ ~q.ppg.has
    \/ q.ppg.samples = <<>>
    \/ ~q.ppg.numeric
    \/ q.fs.has /\ q.fs.val <= 0

C4_InvalidInputRejectedAtOnce ==
    \A t \in Threads :
        (InvalidInput(req[t]) /\ pc[t] # "idle") =>
            /\ raised[t] = "none"
            /\ pc[t] \notin {"extract", "sbp", "dbp", "respond"}
            /\ pc[t] = "done" => resp[t].status = 400

(***************************************************************************)
(* C5.  A predict request gets no response before it ends and one when it  *)
(* ends: a complete result (sbp, dbp and filtered, all three) or a failure *)
(* with an error message and none of the three.  An exception raised by    *)
(* the array conversion, the filter, the feature extraction or either      *)
(* model is answered by the handler with such a failure, status 500.       *)
(***************************************************************************)
C5_CompleteResultOrFailure ==
    \A t \in Threads :
        /\ pc[t] # "done" => resp[t] = NoResp
        /\ pc[t] = "done" =>
              /\ IsResult(resp[t]) \/ IsFailure(resp[t])
              /\ IsResult(resp[t]) =>
                    /\ raised[t] = "none"
                    /\ resp[t] = ResultResponse(sbp[t], dbp[t], filt[t])
              /\ raised[t] # "none" =>
                    /\ IsFailure(resp[t])
                    /\ resp[t].status = 500
                    /\ resp[t].by = "predict"

\* the DBP model raised after the SBP model had answered
C5_Witness ==
    /\ pc[1] = "done"
    /\ raised[1] = "dbp"
    /\ sbp[1] \in ModelValues
    /\ IsFailure(resp[1])
    /\ resp[1].keys = {"error"}


(***************************************************************************)
(* C6.  The failure kinds as the caller can tell them apart.               *)
(***************************************************************************)
\* what the caller sees of a failure: its kind (the status) and its message
Seen(r) == << r.status, r.error >>

EmptyWaveform(q) == ~q.ppg.has \/ q.ppg.samples = <<>>

\* thread t's request failed, and for no other reason than unloaded models
FailedForModelsOnly(t) ==
    /\ pc[t] = "done"
    /\ ModelsUnavailable
    /\ ValidWaveform(req[t])
    /\ FsOf(req[t]) > 0

\* thread t's request failed for its empty or missing waveform
FailedForEmptyWaveform(t) ==
    /\ pc[t] = "done"
    /\ EmptyWaveform(req[t])

\* thread t's request failed in the conversion, the filter, the extraction
\* or a model
FailedInProcessing(t) ==
    /\ pc[t] = "done"
    /\ raised[t] # "none"

(***************************************************************************)
(* C6 as claimed: the response to an empty or missing waveform differs     *)
(* from the response to unloaded models, and both differ from the response *)
(* to a filtering or prediction failure.                                   *)
(***************************************************************************)
C6_FailureKindsDistinguishable ==
    \A t1 \in Threads, t2 \in Threads :
        /\ (FailedForEmptyWaveform(t1) /\ FailedForModelsOnly(t2)) =>
              Seen(resp[t1]) # Seen(resp[t2])
        /\ ((FailedForEmptyWaveform(t1) \/ FailedForModelsOnly(t1))
              /\ FailedInProcessing(t2)) =>
              Seen(resp[t1]) # Seen(resp[t2])

(***************************************************************************)
(* C6 as amended: every failure carries an error message; an empty or      *)
(* missing waveform and unloaded models get one and the same response      *)
(* (status 400, "Invalid input or models not loaded"); both differ, by     *)
(* status, from the response to a failure raised in the conversion, the    *)
(* filter, the feature extraction or a model (status 500).                 *)
(***************************************************************************)
C6_CheckFailuresShareOneResponse ==
    \A t1 \in Threads, t2 \in Threads :
        /\ (pc[t1] = "done" /\ ~IsResult(resp[t1])) => IsFailure(resp[t1])
        /\ (FailedForEmptyWaveform(t1) \/ FailedForModelsOnly(t1)) =>
              resp[t1] = CheckFailedResponse
        /\ ((FailedForEmptyWaveform(t1) \/ FailedForModelsOnly(t1))
              /\ FailedInProcessing(t2)) =>
              /\ resp[t1].status # resp[t2].status
              /\ Seen(resp[t1]) # Seen(resp[t2])

\* an empty waveform and a filter failure, answered side by side
C6_Witness ==
    /\ FailedForEmptyWaveform(1)
    /\ FailedInProcessing(2)
    /\ raised[2] = "filter"
    /\ resp[1].status = 400
    /\ resp[2].status = 500

(***************************************************************************)
(* C7.  For a request with sample rate fs > 0 whose normalized waveform    *)
(* has at least 2 peaks at a minimum distance of 0.5 x fs samples, the     *)
(* pulse-interval feature handed to the models is the mean difference of   *)
(* consecutive peak indices divided by that fs.                            *)
(***************************************************************************)
C7_IntervalUsesRequestRate ==
    \A t \in Threads :
        (HasFeatures(t) /\ filt[t].finite /\ fs[t] > 0) =>
            LET pks == find_peaks(MinMaxScale(filt[t].samples).num, fs[t] \div 2)
                n   == Len(pks)
            IN  n >= 2 =>
                  \E i \in 1..Len(X[t]) :
                     /\ X[t][i].name = "interval"
                     /\ X[t][i].kind = "exact"
                     \* num / den = ((last - first) / (n - 1)) / fs
                     /\ X[t][i].num * ((n - 1) * fs[t])
                           = (pks[n] - pks[1]) * X[t][i].den

(***************************************************************************)
(* C9.  Concurrent predict requests are independent: a step of one thread  *)
(* changes nothing of another thread's request, locals or response, no     *)
(* step changes the models, each thread's locals derive from its own       *)
(* request, and each response is one the request gets when served alone.   *)
(***************************************************************************)
\* the feature vectors predict() may compute from a filtered waveform
FeaturesOf(w) ==
    IF w.finite
    THEN {extract_features(w.samples, b) : b \in BOOLEAN}
    ELSE {<<>>}

\* the responses to request q when it is the only one being served
AloneResponses(q) ==
    IF CheckFails(DataOf(q), model_sbp, model_dbp) THEN {CheckFailedResponse}
    ELSE IF ~DataOf(q).numeric
    THEN {ExceptionResponse("could not convert string to float")}
    ELSE IF FilterError(DataOf(q).samples, FsOf(q)) # ""
    THEN {ExceptionResponse(FilterError(DataOf(q).samples, FsOf(q)))}
    ELSE { ExceptionResponse("model_sbp.predict raised"),
           ExceptionResponse("model_dbp.predict raised") }
         \cup (IF DataOf(q).finite THEN {}
               ELSE {ExceptionResponse("Input contains infinity")})
         \cup { ResultResponse(s, d, w) :
                  s \in ModelValues, d \in ModelValues,
                  w \in butter_bandpass_filter(DataOf(q), FsOf(q), SampleWaveforms) }

OwnLocals(t) ==
    /\ pc[t] \notin {"idle", "parse"} =>
          /\ data[t] = DataOf(req[t])
          /\ fs[t] = FsOf(req[t])
    /\ pc[t] \in {"extract", "sbp", "dbp", "respond"} =>
          filt[t] \in butter_bandpass_filter(data[t], fs[t], SampleWaveforms)
    /\ pc[t] \in {"sbp", "dbp", "respond"} => X[t] \in FeaturesOf(filt[t])
    /\ pc[t] = "done" => resp[t] \in AloneResponses(req[t])
    /\ (pc[t] = "done" /\ IsResult(resp[t])) =>
          /\ resp[t] = ResultResponse(sbp[t], dbp[t], filt[t])
          /\ X[t] \in FeaturesOf(filt[t])

Untouched(t) ==
    /\ req'[t] = req[t] /\ resp'[t] = resp[t] /\ raised'[t] = raised[t]
    /\ data'[t] = data[t] /\ fs'[t] = fs[t] /\ filt'[t] = filt[t]
    /\ X'[t] = X[t] /\ sbp'[t] = sbp[t] /\ dbp'[t] = dbp[t]

C9_RequestsIndependent ==
    /\ [](\A t \in Threads : OwnLocals(t))
    /\ [][\A t \in Threads : pc'[t] = pc[t] => Untouched(t)]_vars
    /\ [][UNCHANGED globals]_vars

\* both threads in the middle of a request, then both answered with results
\* that differ
C9_Witness ==
    /\ pc[1] = "done" /\ pc[2] = "done"
    /\ IsResult(resp[1]) /\ IsResult(resp[2])
    /\ resp[1].filtered # resp[2].filtered
    /\ resp[1].sbp # resp[2].sbp


(***************************************************************************)
(* What the extractors return for the waveform thread t has filtered, as   *)
(* extract_features calls them (lines 612, 615 and 616).                   *)
(***************************************************************************)
ScaledOf(t) == MinMaxScale(filt[t].samples)

PulseBlock(t) == extract_ppg_specific_features(ScaledOf(t), DefaultFs)

MorphologyBlock(t) == extract_ppg_features(ScaledOf(t), DefaultFs)

PeaksOf(t) == find_peaks(ScaledOf(t).num, DefaultFs \div 2)

ValleysOf(t) == find_peaks(Negated(ScaledOf(t).num), MorphDistance)

AllMissing(block) == \A i \in 1..Len(block) : block[i].kind = "nan"

\* the slots of x whose name is in names
Slots(x, names) == { x[i] : i \in { j \in 1..Len(x) : x[j].name \in names } }

Extracted(t) == pc[t] = "sbp" /\ filt[t].finite

(***************************************************************************)
(* C8.  With fewer than 2 peaks both pulse-interval slots and all 9        *)
(* morphology slots are missing, and nothing is raised; the morphology     *)
(* block is missing as a whole exactly when there are fewer than 2 peaks   *)
(* or fewer than 2 valleys, and otherwise its timing slots are all there.  *)
(* The vector handed on holds the blocks' values that are not missing.     *)
(***************************************************************************)
C8_TooFewPeaksGiveMissingBlocks ==
    \A t \in Threads :
        Extracted(t) =>
            LET pf      == PulseBlock(t)
                wf      == MorphologyBlock(t)
                peaks   == Len(PeaksOf(t))
                valleys == Len(ValleysOf(t))
            IN  /\ raised[t] = "none"
                /\ Len(pf) = 2 /\ Len(wf) = 9
                /\ peaks < 2 =>
                      /\ AllMissing(pf)
                      /\ AllMissing(wf)
                      /\ Slots(X[t], {"interval", "amp"}) = {}
                /\ AllMissing(wf) <=> (peaks < 2 \/ valleys < 2)
                /\ ~AllMissing(wf) =>
                      \A i \in {1, 2, 3, 4, 5, 6, 7, 9} : wf[i].kind # "nan"
                /\ Slots(X[t], {"interval", "amp"})
                      = { v \in {pf[i] : i \in 1..2} : v.kind # "nan" }
                /\ Slots(X[t], {MorphologyNames[i] : i \in 1..9})
                      = { v \in {wf[i] : i \in 1..9} : v.kind # "nan" }

\* a ramp: no peak at all, every slot of both blocks missing
C8_Witness ==
    /\ Extracted(1)
    /\ Len(PeaksOf(1)) = 0
    /\ \A i \in 2..Len(filt[1].samples) :
          filt[1].samples[i - 1] <= filt[1].samples[i]
    /\ filt[1].samples[1] < filt[1].samples[Len(filt[1].samples)]
    /\ AllMissing(PulseBlock(1))
    /\ AllMissing(MorphologyBlock(1))

(***************************************************************************)
(* C10.  Whenever the morphology block is computed, ETR is exactly 0 (its  *)
(* numerator T4 + T5 is 0 over the non-zero T1 + T2 + T3), or missing when *)
(* T1 + T2 + T3 is 0, and BD is the index of the second peak minus the     *)
(* index of the first valley.                                              *)
(***************************************************************************)
C10_EtrIsZero ==
    \A t \in Threads :
        Extracted(t) =>
            LET peaks   == PeaksOf(t)
                valleys == ValleysOf(t)
                wf      == MorphologyBlock(t)
                BD      == peaks[2] - valleys[1]
            IN  (Len(peaks) >= 2 /\ Len(valleys) >= 2) =>
                  /\ wf[2] = Exact("BD", BD, 1)
                  /\ IF BD # 0
                     THEN wf[1].kind = "exact" /\ wf[1].num = 0 /\ wf[1].den = BD
                     ELSE wf[1].kind = "nan"
                  /\ \A v \in Slots(X[t], {"ETR"}) : v.num = 0 /\ v.den # 0
                  /\ \A v \in Slots(X[t], {"BD"}) : v.num = BD /\ v.den = 1

\* a computed block whose first peak comes before its first valley
C10_Witness ==
    /\ Extracted(1)
    /\ Len(PeaksOf(1)) >= 2 /\ Len(ValleysOf(1)) >= 2
    /\ PeaksOf(1)[1] < ValleysOf(1)[1]
    /\ Slots(X[1], {"ETR"}) # {}
    /\ Slots(X[1], {"BD"}) # {}

(***************************************************************************)
(* C11.  After any sequence of /update, /clear and /api/spo2-data requests *)
(* from module load, session_data holds the keys each handler reads (min,  *)
(* max, total and count for a valid heart rate in /update, spo2 and pulse  *)
(* for an unpaused /api/spo2-data), so no call of either handler ends in a *)
(* KeyError.                                                               *)
(***************************************************************************)
C11_SessionKeysPresent == crashed = "none"

=============================================================================
